---- MODULE Spec2Model ----
(***************************************************************************)
(* Crossword generation as a constraint-satisfaction problem               *)
(* (crossword/generate.py, class CrosswordCreator).                        *)
(*                                                                         *)
(* A word is a tuple of letters.  Python indexes from 0 and TLA+ from 1:   *)
(* overlaps keep the 0-based indices of the program and CharAt adds one.   *)
(* A Variable is a record [i, j, direction, length]; an assignment is a    *)
(* function from a set of Variables to words (a Python dict).              *)
(***************************************************************************)
EXTENDS Integers, Sequences, FiniteSets, TLC

VARIABLES
    crossword,    \* self.crossword: [words, variables, overlaps]
    domains,      \* self.domains: Variable -> set of words
    prev,         \* the domain store on entry of the operation last started
    pc,           \* position of the caller
    arcs,         \* the worklist of ac3 (a deque of <<x, y>>)
    ac3ret,       \* what ac3() returned: "pending", "True" or "False"
    assignment,   \* the assignment dict shared by all backtrack frames
    stack,        \* the backtrack frames: [variable, todo, entry], entry
                  \* being the assignment the frame was entered with
    ret,          \* what the last call returned
    raised,       \* the exception raised so far: "none" or its name
    calls,        \* how often the operation under study has been called
    given         \* the argument of the outermost call under study

vars == <<crossword, domains, prev, pc, arcs, ac3ret, assignment, stack, ret,
          raised, calls, given>>

----------------------------------------------------------------------------
(* Bounds *)

\* The largest dictionary (number of words) handed to the program.
MaxWords == 3

\* The words a dictionary is drawn from.
WordPool ==
    { <<"a","b">>, <<"b","a">>, <<"a","a">>, <<"b","b">>,
      <<"a","b","a">>, <<"a","b","b">>, <<"a","a","b">>, <<"b","a","b">> }

\* Every dictionary of at most MaxWords words.
Dictionaries == { d \in SUBSET WordPool : Cardinality(d) <= MaxWords }

\* The grid layouts: the set of fillable cells <<row, column>> of each.
\*   OneSlot   ##        Corner  ###      Chain  ##..     Parallel  ##
\*                               ..#             .###               ..
\*                                                                  ##
OneSlot  == { <<0,0>>, <<0,1>> }
Corner   == { <<0,0>>, <<0,1>>, <<0,2>>, <<1,2>> }
Chain    == { <<0,0>>, <<0,1>>, <<1,1>>, <<1,2>>, <<1,3>> }
Parallel == { <<0,0>>, <<0,1>>, <<2,0>>, <<2,1>> }
Structures == { OneSlot, Corner, Chain, Parallel }

----------------------------------------------------------------------------
(* The puzzle model (crossword.py: Variable, Crossword) *)

ACROSS == "across"
DOWN   == "down"
None   == <<>>

\* Variable.cells: the cells a variable occupies.
Cells(var) ==
    { << var.i + (IF var.direction = DOWN THEN k ELSE 0),
         var.j + (IF var.direction = ACROSS THEN k ELSE 0) >> :
      k \in 0 .. var.length - 1 }

\* cells.index(c): the position of cell c in the word of var.
CellIndex(var, c) ==
    IF var.direction = DOWN THEN c[1] - var.i ELSE c[2] - var.j

\* The length of the run of fillable cells from <<i, j>> in direction d.
RECURSIVE RunLength(_, _, _, _)
RunLength(cells, i, j, d) ==
    IF <<i, j>> \notin cells THEN 0
    ELSE 1 + RunLength(cells, IF d = DOWN THEN i + 1 ELSE i,
                              IF d = ACROSS THEN j + 1 ELSE j, d)

\* Crossword.variables: every maximal run of two or more fillable cells.
VariablesOf(cells) ==
    { [i |-> c[1], j |-> c[2], direction |-> ACROSS,
       length |-> RunLength(cells, c[1], c[2], ACROSS)] :
      c \in { c \in cells : /\ <<c[1], c[2] - 1>> \notin cells
                            /\ RunLength(cells, c[1], c[2], ACROSS) > 1 } }
    \cup
    { [i |-> c[1], j |-> c[2], direction |-> DOWN,
       length |-> RunLength(cells, c[1], c[2], DOWN)] :
      c \in { c \in cells : /\ <<c[1] - 1, c[2]>> \notin cells
                            /\ RunLength(cells, c[1], c[2], DOWN) > 1 } }

\* Crossword.overlaps[v1, v2]: None, or the indices <<i, j>> at which the
\* words of v1 and v2 share a cell.
OverlapOf(v1, v2) ==
    LET common == Cells(v1) \cap Cells(v2)
    IN  IF common = {} THEN None
        ELSE LET c == CHOOSE c \in common : TRUE
             IN  << CellIndex(v1, c), CellIndex(v2, c) >>

\* Crossword(structure, words).
Crossword(cells, words) ==
    LET vs == VariablesOf(cells)
    IN  [ words     |-> words,
          variables |-> vs,
          overlaps  |-> [ p \in { q \in vs \X vs : q[1] # q[2] } |->
                            OverlapOf(p[1], p[2]) ] ]

\* Crossword.neighbors(var).
Neighbors(var) ==
    { v \in crossword.variables :
        v # var /\ crossword.overlaps[<<v, var>>] # None }

\* word[k] of the program; "IndexError" when k is out of range.
InRange(word, k) == k < Len(word)
CharAt(word, k) == word[k + 1]

----------------------------------------------------------------------------
(* Assignments (Python dicts keyed by Variable) *)

Keys(a) == DOMAIN a

\* dict(): the empty assignment.
EmptyAssignment == [ v \in {} |-> None ]

\* a[variable] = value
Put(a, variable, value) ==
    [ v \in Keys(a) \cup {variable} |-> IF v = variable THEN value ELSE a[v] ]

\* Pop that leaves the key in the dict.
PopNothing(a, variable) == a

\* a.pop(variable)
Pop(a, variable) == [ v \in Keys(a) \ {variable} |-> a[v] ]

\* `value in a` for a word: membership among the keys, which are Variables;
\* a word (str) is never equal to a Variable.
VariableIsWord(v, value) == FALSE
WordInKeys(value, a) == \E v \in Keys(a) : VariableIsWord(v, value)

----------------------------------------------------------------------------
(* The constraint predicate and the consistency check *)

\* PairStatus with the comparison of line 270 inverted (== for !=).
PairStatusInverted(a, x, y) ==
    IF x = y THEN "skip"
    ELSE LET overlaps == crossword.overlaps[<<x, y>>]
         IN  IF overlaps = None THEN "skip"
             ELSE IF ~InRange(a[x], overlaps[1]) \/ ~InRange(a[y], overlaps[2])
                  THEN "IndexError"
             ELSE IF CharAt(a[x], overlaps[1]) = CharAt(a[y], overlaps[2])
                  THEN "conflict"
             ELSE "agree"

\* One step of the double loop of do_variable_assignments_conflict, for the
\* ordered pair x, y: "skip" (same variable or no overlap), "conflict" (the
\* letters differ), "agree", or "IndexError" (an index beyond a word).
PairStatus(a, x, y) ==
    IF x = y THEN "skip"
    ELSE LET overlaps == crossword.overlaps[<<x, y>>]
         IN  IF overlaps = None THEN "skip"
             ELSE IF ~InRange(a[x], overlaps[1]) \/ ~InRange(a[y], overlaps[2])
                  THEN "IndexError"
             ELSE IF CharAt(a[x], overlaps[1]) # CharAt(a[y], overlaps[2])
                  THEN "conflict"
             ELSE "agree"

\* do_variable_assignments_conflict(a): the set of outcomes over the orders
\* in which the dict can be iterated.  The loop returns True at the first
\* conflicting pair and raises at the first pair indexed out of range,
\* whichever the iteration meets first; it returns False when it meets none.
DoVariableAssignmentsConflict(a) ==
    LET met == { PairStatus(a, p[1], p[2]) : p \in Keys(a) \X Keys(a) }
    IN  (IF "conflict" \in met THEN {"True"} ELSE {})
        \cup (IF "IndexError" \in met THEN {"IndexError"} ELSE {})
        \cup (IF met \cap {"conflict", "IndexError"} = {} THEN {"False"} ELSE {})

\* SomeValueRepeated with the distinctness test of lines 247-248 left out.
SomeValueRepeatedNever(a) == FALSE

\* Lines 243-249: some word is assigned to two variables.
SomeValueRepeated(a) ==
    \E x \in Keys(a) : \E y \in Keys(a) : x # y /\ a[x] = a[y]

\* Lines 253-254: some key is no variable of the crossword.
SomeKeyUnknown(a) == \E x \in Keys(a) : x \notin crossword.variables

\* consistent(a): the set of outcomes, "True", "False" or "IndexError".
Consistent(a) ==
    IF SomeValueRepeated(a) \/ SomeKeyUnknown(a) THEN {"False"}
    ELSE { IF c = "True" THEN "False" ELSE IF c = "False" THEN "True" ELSE c :
           c \in DoVariableAssignmentsConflict(a) }

\* AssignmentComplete comparing against one variable fewer (off by one).
AssignmentCompleteEarly(a) ==
    Cardinality(Keys(a)) >= Cardinality(crossword.variables) - 1

\* assignment_complete(a)
AssignmentComplete(a) ==
    Cardinality(Keys(a)) = Cardinality(crossword.variables)

----------------------------------------------------------------------------
(* Node consistency *)

\* FilterLength with the test of line 105 weakened to "longer than".
RECURSIVE FilterLengthLonger(_, _, _)
FilterLengthLonger(dom, todo, length) ==
    IF todo = {} THEN dom
    ELSE LET word == CHOOSE w \in todo : TRUE
         IN  FilterLengthLonger(IF Len(word) > length THEN dom \ {word} ELSE dom,
                                todo \ {word}, length)

\* The inner loop of enforce_node_consistency for one variable: every word of
\* the copy `todo` is looked at once and discarded from dom when its length
\* is not the variable's.
RECURSIVE FilterLength(_, _, _)
FilterLength(dom, todo, length) ==
    IF todo = {} THEN dom
    ELSE LET word == CHOOSE w \in todo : TRUE
         IN  FilterLength(IF Len(word) # length THEN dom \ {word} ELSE dom,
                          todo \ {word}, length)

\* EnforceNodeConsistency discarding only the first offending word of each
\* variable (a break after line 106).
EnforceNodeConsistencyOnce(doms) ==
    [ variable \in crossword.variables |->
        LET wrong == { w \in doms[variable] : Len(w) # variable.length }
        IN  IF wrong = {} THEN doms[variable]
            ELSE doms[variable] \ { CHOOSE w \in wrong : TRUE } ]

\* enforce_node_consistency(): the domain store it leaves.
EnforceNodeConsistency(doms) ==
    [ variable \in crossword.variables |->
        FilterLength(doms[variable], doms[variable], variable.length) ]

----------------------------------------------------------------------------
(* Arc consistency *)

\* The hypothetical assignment {x: x_word, y: y_word} of revise.
Hypothetical(x, x_word, y, y_word) ==
    [ v \in {x, y} |-> IF v = x THEN x_word ELSE y_word ]

\* HasCorrespondingValue not counting the word x_word itself as a support.
HasCorrespondingValueOther(doms, x, x_word, y) ==
    \E y_word \in doms[y] \ {x_word} :
        "False" \in DoVariableAssignmentsConflict(Hypothetical(x, x_word, y, y_word))

\* has_corresponding_value after the inner loop of revise.
HasCorrespondingValue(doms, x, x_word, y) ==
    \E y_word \in doms[y] :
        "False" \in DoVariableAssignmentsConflict(Hypothetical(x, x_word, y, y_word))

\* Whether some call of do_variable_assignments_conflict in revise raises.
ReviseRaises(doms, x, y) ==
    \E x_word \in doms[x] : \E y_word \in doms[y] :
        "IndexError" \in
            DoVariableAssignmentsConflict(Hypothetical(x, x_word, y, y_word))

\* Revise discarding the unsupported words of y as well as those of x.
ReviseBoth(doms, x, y) ==
    IF x = y THEN [ domains |-> doms, revised |-> FALSE ]
    ELSE IF crossword.overlaps[<<x, y>>] = None
         THEN [ domains |-> doms, revised |-> FALSE ]
    ELSE LET dx == { x_word \in doms[x] :
                       ~HasCorrespondingValue(doms, x, x_word, y) }
             dy == { y_word \in doms[y] :
                       ~HasCorrespondingValue(doms, y, y_word, x) }
         IN  [ domains |-> [ doms EXCEPT ![x] = doms[x] \ dx,
                                         ![y] = doms[y] \ dy ],
               revised |-> dx # {} ]

\* Revise reporting a revision whenever x and y overlap.
ReviseAlwaysTrue(doms, x, y) ==
    IF x = y THEN [ domains |-> doms, revised |-> FALSE ]
    ELSE IF crossword.overlaps[<<x, y>>] = None
         THEN [ domains |-> doms, revised |-> FALSE ]
    ELSE LET discarded == { x_word \in doms[x] :
                              ~HasCorrespondingValue(doms, x, x_word, y) }
         IN  [ domains |-> [ doms EXCEPT ![x] = doms[x] \ discarded ],
               revised |-> TRUE ]

\* revise(x, y): the domain store it leaves and the value it returns.
Revise(doms, x, y) ==
    IF x = y THEN [ domains |-> doms, revised |-> FALSE ]
    ELSE IF crossword.overlaps[<<x, y>>] = None
         THEN [ domains |-> doms, revised |-> FALSE ]
    ELSE LET discarded == { x_word \in doms[x] :
                              ~HasCorrespondingValue(doms, x, x_word, y) }
         IN  [ domains |-> [ doms EXCEPT ![x] = doms[x] \ discarded ],
               revised |-> discarded # {} ]

\* Every sequence that lists each element of S once.
RECURSIVE Perms(_)
Perms(S) ==
    IF S = {} THEN { <<>> }
    ELSE UNION { { <<e>> \o s : s \in Perms(S \ {e}) } : e \in S }

\* Lines 196-201: the arcs <<node, neighbor>>, in an order the two nested
\* loops over sets can produce (the arcs of one node are contiguous).
InitialArcs ==
    LET all == { p \in crossword.variables \X crossword.variables :
                   p[1] # p[2] /\ p[2] \in Neighbors(p[1]) }
    IN  { s \in Perms(all) :
            \A i \in DOMAIN s : \A k \in DOMAIN s :
                (i < k /\ s[i][1] = s[k][1]) =>
                    \A j \in i .. k : s[j][1] = s[i][1] }

\* Lines 211-213: the arcs appended after revise(x, y) shrank the domain of
\* x, as a set; the loop appends them in some order.
Requeued(x, y) ==
    { <<x, neighbor>> : neighbor \in { n \in Neighbors(x) : n # x /\ n # y } }

----------------------------------------------------------------------------
(* solve(): node consistency, ac3, backtracking search *)

\* CrosswordCreator(crossword): every domain is a copy of the dictionary.
InitialDomains(cw) == [ var \in cw.variables |-> cw.words ]

Init ==
    /\ \E cells \in Structures : \E words \in Dictionaries :
           crossword = Crossword(cells, words)
    /\ domains = InitialDomains(crossword)
    /\ prev = domains
    /\ pc = "solve"
    /\ arcs = <<>>
    /\ ac3ret = "pending"
    /\ assignment = EmptyAssignment
    /\ stack = <<>>
    /\ ret = "pending"
    /\ raised = "none"
    /\ calls = 0
    /\ given = assignment

\* Line 93: self.enforce_node_consistency()
SolveNodeConsistency ==
    /\ pc = "solve"
    /\ domains' = EnforceNodeConsistency(domains)
    /\ pc' = "ac3"
    /\ UNCHANGED <<crossword, given, prev, arcs, ac3ret, assignment, stack, ret,
                   raised, calls>>

\* Lines 94, 196-201: ac3() is entered with arcs None and builds the worklist.
Ac3Begin ==
    /\ pc = "ac3"
    /\ arcs' \in InitialArcs
    /\ prev' = domains
    /\ pc' = "ac3loop"
    /\ UNCHANGED <<crossword, given, domains, ac3ret, assignment, stack, ret, raised,
                   calls>>

\* Lines 205-213: one iteration of the while loop.
Ac3Step ==
    /\ pc = "ac3loop"
    /\ arcs # <<>>
    /\ LET arc == Head(arcs)
           x == arc[1]
           y == arc[2]
           r == Revise(domains, x, y)
       IN  IF ReviseRaises(domains, x, y)
           THEN /\ raised' = "IndexError"
                /\ pc' = "error"
                /\ arcs' = Tail(arcs)
                /\ UNCHANGED <<domains, ac3ret>>
           ELSE /\ domains' = r.domains
                /\ raised' = raised
                /\ IF r.revised /\ r.domains[x] = {}
                   THEN /\ ac3ret' = "False"
                        /\ arcs' = Tail(arcs)
                        /\ pc' = "call"
                   ELSE /\ ac3ret' = ac3ret
                        /\ pc' = pc
                        /\ IF r.revised
                           THEN \E more \in Perms(Requeued(x, y)) :
                                    arcs' = Tail(arcs) \o more
                           ELSE arcs' = Tail(arcs)
    /\ UNCHANGED <<crossword, given, prev, assignment, stack, ret, calls>>

\* Line 216: the worklist is empty, ac3() returns True.
Ac3ReturnTrue ==
    /\ pc = "ac3loop"
    /\ arcs = <<>>
    /\ ac3ret' = "True"
    /\ pc' = "call"
    /\ UNCHANGED <<crossword, given, domains, prev, arcs, assignment, stack, ret,
                   raised, calls>>

\* Lines 317-322: the variables random.choice picks from.
VariablesNotInAssignment(a) == { v \in crossword.variables : v \notin Keys(a) }

\* Lines 368-373: backtrack(assignment) is entered; it returns the assignment
\* when complete, else selects a variable and starts the loop over its domain.
BacktrackEnter ==
    /\ pc = "call"
    /\ IF AssignmentComplete(assignment)
       THEN /\ ret' = "assignment"
            /\ pc' = "return"
            /\ UNCHANGED <<stack, raised>>
       ELSE IF VariablesNotInAssignment(assignment) = {}
            THEN /\ raised' = "IndexError"
                 /\ pc' = "error"
                 /\ UNCHANGED <<stack, ret>>
       ELSE /\ \E variable \in VariablesNotInAssignment(assignment) :
                   stack' = Append(stack, [ variable |-> variable,
                                            todo |-> domains[variable],
                                            entry |-> assignment ])
            /\ pc' = "loop"
            /\ UNCHANGED <<ret, raised>>
    /\ UNCHANGED <<crossword, given, domains, prev, arcs, ac3ret, assignment, calls>>

\* BacktrackTry that pins the domain of the variable to the value tried and
\* never restores it.
BacktrackTryPinning ==
    /\ pc = "loop"
    /\ stack # <<>>
    /\ LET frame == stack[Len(stack)]
       IN  /\ frame.todo # {}
           /\ \E value \in frame.todo :
                /\ stack' = [ stack EXCEPT ![Len(stack)].todo = @ \ {value} ]
                /\ assignment' = Put(assignment, frame.variable, value)
                /\ domains' = [ domains EXCEPT ![frame.variable] = {value} ]
                /\ pc' = "call"
    /\ UNCHANGED <<crossword, given, prev, arcs, ac3ret, ret, raised, calls>>

\* BacktrackTry whose loop never advances: the value tried stays in the
\* values still to try.
BacktrackTryAgain ==
    /\ pc = "loop"
    /\ stack # <<>>
    /\ LET frame == stack[Len(stack)]
       IN  /\ frame.todo # {}
           /\ \E value \in frame.todo :
                /\ stack' = stack
                /\ assignment' = Put(assignment, frame.variable, value)
                /\ pc' = "call"
    /\ UNCHANGED <<crossword, given, domains, prev, arcs, ac3ret, ret, raised, calls>>

\* Lines 373-376: the loop takes the next value of the domain, assigns it and
\* calls backtrack.  (Line 379 after a skipped assignment pops a key that
\* may be absent: KeyError.)
BacktrackTry ==
    /\ pc = "loop"
    /\ stack # <<>>
    /\ LET frame == stack[Len(stack)]
       IN  /\ frame.todo # {}
           /\ \E value \in frame.todo :
                /\ stack' = [ stack EXCEPT ![Len(stack)].todo = @ \ {value} ]
                /\ IF ~WordInKeys(value, assignment)
                   THEN /\ assignment' = Put(assignment, frame.variable, value)
                        /\ pc' = "call"
                        /\ raised' = raised
                   ELSE IF frame.variable \in Keys(assignment)
                        THEN /\ assignment' = Pop(assignment, frame.variable)
                             /\ pc' = pc
                             /\ raised' = raised
                   ELSE /\ raised' = "KeyError"
                        /\ pc' = "error"
                        /\ assignment' = assignment
    /\ UNCHANGED <<crossword, given, domains, prev, arcs, ac3ret, ret, calls>>

\* Lines 376-379: the recursive call returned; the result is passed up when
\* the assignment is complete and consistent, else the variable is popped.
BacktrackResume ==
    /\ pc = "return"
    /\ stack # <<>>
    /\ LET frame == stack[Len(stack)]
       IN  IF AssignmentComplete(assignment)
           THEN \E c \in Consistent(assignment) :
                    IF c = "True"
                    THEN /\ stack' = SubSeq(stack, 1, Len(stack) - 1)
                         /\ pc' = "return"
                         /\ UNCHANGED <<assignment, raised>>
                    ELSE IF c = "False"
                    THEN /\ assignment' = Pop(assignment, frame.variable)
                         /\ pc' = "loop"
                         /\ UNCHANGED <<stack, raised>>
                    ELSE /\ raised' = c
                         /\ pc' = "error"
                         /\ UNCHANGED <<stack, assignment>>
           ELSE /\ assignment' = Pop(assignment, frame.variable)
                /\ pc' = "loop"
                /\ UNCHANGED <<stack, raised>>
    /\ UNCHANGED <<crossword, given, domains, prev, arcs, ac3ret, ret, calls>>

\* Line 381: the domain is exhausted, backtrack returns None.
BacktrackExhausted ==
    /\ pc = "loop"
    /\ stack # <<>>
    /\ stack[Len(stack)].todo = {}
    /\ stack' = SubSeq(stack, 1, Len(stack) - 1)
    /\ ret' = "None"
    /\ pc' = "return"
    /\ UNCHANGED <<crossword, given, domains, prev, arcs, ac3ret, assignment, raised,
                   calls>>

\* Line 95: solve() returns what backtrack(dict()) returned.
SolveReturn ==
    /\ pc = "return"
    /\ stack = <<>>
    /\ pc' = "done"
    /\ UNCHANGED <<crossword, given, domains, prev, arcs, ac3ret, assignment, stack,
                   ret, raised, calls>>

Next ==
    \/ SolveNodeConsistency
    \/ Ac3Begin
    \/ Ac3Step
    \/ Ac3ReturnTrue
    \/ BacktrackEnter
    \/ BacktrackTry
    \/ BacktrackResume
    \/ BacktrackExhausted
    \/ SolveReturn

Spec == Init /\ [][Next]_vars

----------------------------------------------------------------------------
(* Properties of solve() *)

\* x and y are distinct variables of the crossword that share a cell.
Overlapping(x, y) == x # y /\ crossword.overlaps[<<x, y>>] # None

\* The words wx of x and wy of y agree on the shared cell.
Agree(x, wx, y, wy) ==
    LET o == crossword.overlaps[<<x, y>>]
    IN  /\ InRange(wx, o[1])
        /\ InRange(wy, o[2])
        /\ CharAt(wx, o[1]) = CharAt(wy, o[2])

\* a is a solution of the puzzle: complete, words of the dictionary of the
\* right length, pairwise distinct, agreeing at every overlap.
IsSolution(a) ==
    /\ Keys(a) = crossword.variables
    /\ \A v \in Keys(a) : a[v] \in crossword.words /\ Len(a[v]) = v.length
    /\ \A x \in Keys(a) : \A y \in Keys(a) : x # y => a[x] # a[y]
    /\ \A x \in Keys(a) : \A y \in Keys(a) :
           Overlapping(x, y) => Agree(x, a[x], y, a[y])

\* Some solution exists over the initial domains (the whole dictionary).
SolutionExists ==
    \E a \in [ crossword.variables -> crossword.words ] : IsSolution(a)

\* C1: whatever solve() returns other than None is a complete assignment of
\* dictionary words of the right lengths, pairwise distinct, agreeing at
\* every overlap.
C1_ReturnedAssignmentIsSolution ==
    (pc = "done" /\ ret = "assignment") => IsSolution(assignment)

C1_Witness ==
    /\ pc = "done"
    /\ ret = "assignment"
    /\ Cardinality(crossword.variables) = 3
    /\ \E x \in crossword.variables : Neighbors(x) # {}

\* C2: when a solution exists over the initial domains, solve() raises
\* nothing and returns an assignment, whatever the random choices and the
\* iteration orders.
C2_SolutionIsFound ==
    SolutionExists =>
        /\ pc # "error"
        /\ pc = "done" => ret = "assignment"

C2_Witness ==
    /\ pc = "done"
    /\ SolutionExists
    /\ ret = "assignment"
    /\ ac3ret = "True"
    /\ domains # prev

\* C3: after ac3() returned True every word of every variable has a
\* supporting word in the domain of each overlapping variable.
C3_ArcConsistentAfterAc3 ==
    ac3ret = "True" =>
        \A x \in crossword.variables : \A y \in crossword.variables :
            Overlapping(x, y) =>
                \A wx \in domains[x] : \E wy \in domains[y] : Agree(x, wx, y, wy)

\* C4: on a puzzle without solution solve() raises nothing and returns None.
C4_NoSolutionReturnsNone ==
    ~SolutionExists =>
        /\ pc # "error"
        /\ raised = "none"
        /\ pc = "done" => ret = "None"

C4_Witness ==
    /\ pc = "done"
    /\ ~SolutionExists
    /\ ac3ret = "False"
    /\ ret = "None"
    /\ \E v \in crossword.variables : domains[v] = {}

\* C5: when two overlapping variables had no compatible pair of words in
\* the domains ac3() started from, ac3() returned False.
C5_Ac3FailsOnIncompatiblePair ==
    ( /\ ac3ret # "pending"
      /\ \E x \in crossword.variables : \E y \in crossword.variables :
             /\ Overlapping(x, y)
             /\ \A wx \in prev[x] : \A wy \in prev[y] : ~Agree(x, wx, y, wy) )
    => ac3ret = "False"

\* C6: ac3() returns True only with no domain empty and False only with
\* some domain empty.
C6_Ac3ReturnTellsEmptiness ==
    /\ ac3ret = "True" => \A v \in crossword.variables : domains[v] # {}
    /\ ac3ret = "False" => \E v \in crossword.variables : domains[v] = {}

----------------------------------------------------------------------------
(* enforce_node_consistency() on an arbitrary domain store *)

\* The most calls of one operation in a row.
MaxCalls == 2

\* Every domain store over the dictionary: each domain any set of its words.
InitStore ==
    /\ \E cells \in Structures : \E words \in Dictionaries :
           crossword = Crossword(cells, words)
    /\ domains \in [ crossword.variables -> SUBSET crossword.words ]
    /\ prev = domains
    /\ pc = "store"
    /\ arcs = <<>>
    /\ ac3ret = "pending"
    /\ assignment = EmptyAssignment
    /\ stack = <<>>
    /\ ret = "pending"
    /\ raised = "none"
    /\ calls = 0
    /\ given = assignment

\* Lines 97-106: enforce_node_consistency() is called.
CallNodeConsistency ==
    /\ pc = "store"
    /\ calls < MaxCalls
    /\ prev' = domains
    /\ domains' = EnforceNodeConsistency(domains)
    /\ calls' = calls + 1
    /\ UNCHANGED <<crossword, given, pc, arcs, ac3ret, assignment, stack, ret, raised>>

NextStore == CallNodeConsistency

SpecStore == InitStore /\ [][NextStore]_vars

\* C7: enforce_node_consistency() leaves in every domain exactly the words
\* of the prior domain whose length is the variable's length.
C7_NodeConsistencyFiltersByLength ==
    calls >= 1 =>
        \A v \in crossword.variables :
            /\ \A w \in domains[v] : Len(w) = v.length /\ w \in prev[v]
            /\ \A w \in prev[v] : Len(w) = v.length => w \in domains[v]

C7_Witness ==
    /\ calls = 1
    /\ \E v \in crossword.variables :
           /\ domains[v] # prev[v]
           /\ domains[v] # {}

\* C8: a call of enforce_node_consistency() after the first changes no
\* domain: the store equals the store the call started from.
C8_NodeConsistencyIdempotent ==
    calls >= 2 => \A v \in crossword.variables : domains[v] = prev[v]

C8_Witness ==
    /\ calls = 2
    /\ \E v \in crossword.variables :
           /\ domains[v] # {}
           /\ \E w \in crossword.words : Len(w) # v.length

----------------------------------------------------------------------------
(* consistent() on an arbitrary assignment *)

\* A Variable that is no variable of any of the Structures.
Stranger == [ i |-> 7, j |-> 7, direction |-> ACROSS, length |-> 2 ]

\* Every assignment of dictionary words, of any length, to some variables of
\* the crossword and possibly to a Variable that is not of the crossword.
InitAssign ==
    /\ \E cells \in Structures : \E words \in Dictionaries :
           crossword = Crossword(cells, words)
    /\ domains = InitialDomains(crossword)
    /\ prev = domains
    /\ pc = "assign"
    /\ arcs = <<>>
    /\ ac3ret = "pending"
    /\ \E keys \in SUBSET (crossword.variables \cup {Stranger}) :
           assignment \in [ keys -> crossword.words ]
    /\ stack = <<>>
    /\ ret = "pending"
    /\ raised = "none"
    /\ calls = 0
    /\ given = assignment

\* Lines 227-259: consistent(assignment) is called.
CallConsistent ==
    /\ pc = "assign"
    /\ \E c \in Consistent(assignment) :
           IF c = "IndexError"
           THEN raised' = c /\ ret' = ret
           ELSE ret' = c /\ raised' = raised
    /\ pc' = "checked"
    /\ calls' = calls + 1
    /\ UNCHANGED <<crossword, given, domains, prev, arcs, ac3ret, assignment, stack>>

NextAssign == CallConsistent

SpecAssign == InitAssign /\ [][NextAssign]_vars

\* C9: consistent() returns False for an assignment that gives one word to
\* two distinct variables.
C9_RepeatedWordIsInconsistent ==
    ( /\ pc = "checked"
      /\ \E x \in Keys(assignment) : \E y \in Keys(assignment) :
             x # y /\ assignment[x] = assignment[y] )
    => (ret = "False" /\ raised = "none")

C9_Witness ==
    /\ pc = "checked"
    /\ Keys(assignment) \subseteq crossword.variables
    /\ \E x \in Keys(assignment) : \E y \in Keys(assignment) :
           /\ x # y
           /\ assignment[x] = assignment[y]
           /\ Len(assignment[x]) = x.length
           /\ Len(assignment[y]) = y.length
    /\ \A x \in Keys(assignment) : \A y \in Keys(assignment) :
           Overlapping(x, y) => Agree(x, assignment[x], y, assignment[y])

\* C10: consistent() returns True only when every assigned word has the
\* length of its variable.
C10_ConsistentChecksLength ==
    (pc = "checked" /\ ret = "True") =>
        \A v \in Keys(assignment) : Len(assignment[v]) = v.length

----------------------------------------------------------------------------
(* The heuristics of the search *)

\* The frame of the innermost backtrack call.
TopFrame == stack[Len(stack)]

\* v is a choice of the minimum-remaining-values heuristic with the degree
\* tie-break among the variables of `unassigned`.
IsMrvDegreeChoice(v, unassigned) ==
    /\ v \in unassigned
    /\ \A u \in unassigned :
           /\ Cardinality(domains[v]) <= Cardinality(domains[u])
           /\ Cardinality(domains[u]) = Cardinality(domains[v]) =>
                  Cardinality(Neighbors(v)) >= Cardinality(Neighbors(u))

\* C11: the variable select_unassigned_variable returned is unassigned, has
\* a smallest domain among the unassigned variables and, among those, the
\* most neighbours.
C11_SelectsMrvDegree ==
    (pc = "loop" /\ stack # <<>>) =>
        IsMrvDegreeChoice(TopFrame.variable,
                          VariablesNotInAssignment(TopFrame.entry))

\* The number of unassigned neighbours of var whose domain holds value.
LcvCount(var, value, a) ==
    Cardinality({ n \in Neighbors(var) : n \notin Keys(a) /\ value \in domains[n] })

\* C12: the word just tried for the chosen variable has no larger count of
\* unassigned neighbours holding it than any word still to be tried.
C12_TriesLeastConstrainingFirst ==
    (pc = "call" /\ stack # <<>>) =>
        \A later \in TopFrame.todo :
            LcvCount(TopFrame.variable, assignment[TopFrame.variable],
                     TopFrame.entry)
              <= LcvCount(TopFrame.variable, later, TopFrame.entry)

----------------------------------------------------------------------------
(* backtrack() on an arbitrary assignment *)

\* Every assignment of dictionary words to some variables of the crossword,
\* handed to backtrack() with the node-consistent domains of the dictionary.
InitSearch ==
    /\ \E cells \in Structures : \E words \in Dictionaries :
           crossword = Crossword(cells, words)
    /\ domains = EnforceNodeConsistency(InitialDomains(crossword))
    /\ prev = domains
    /\ pc = "call"
    /\ arcs = <<>>
    /\ ac3ret = "pending"
    /\ \E keys \in SUBSET crossword.variables :
           assignment \in [ keys -> crossword.words ]
    /\ stack = <<>>
    /\ ret = "pending"
    /\ raised = "none"
    /\ calls = 0
    /\ given = assignment

NextSearch ==
    \/ BacktrackEnter
    \/ BacktrackTry
    \/ BacktrackResume
    \/ BacktrackExhausted
    \/ SolveReturn

SpecSearch == InitSearch /\ [][NextSearch]_vars

\* a is complete, gives pairwise distinct words and agrees at every overlap.
IsCompleteAndConsistent(a) ==
    /\ Keys(a) = crossword.variables
    /\ \A x \in Keys(a) : \A y \in Keys(a) : x # y => a[x] # a[y]
    /\ \A x \in Keys(a) : \A y \in Keys(a) :
           Overlapping(x, y) => Agree(x, a[x], y, a[y])

\* C13: backtrack(assignment) raises nothing and returns None or a complete
\* and consistent assignment that keeps every pair of its input.
C13_BacktrackReturnsNoneOrSolution ==
    /\ pc # "error"
    /\ (pc = "done" /\ ret = "assignment") =>
           /\ IsCompleteAndConsistent(assignment)
           /\ \A v \in Keys(given) : assignment[v] = given[v]

----------------------------------------------------------------------------
(* The empty dictionary *)

\* C14 as stated: with an empty dictionary solve() does not get past its
\* first line without an error having been raised.
C14_EmptyDictionaryIsReported ==
    (crossword.words = {} /\ pc # "solve") => raised # "none"

\* C14 as the code has it: with an empty dictionary and at least one
\* variable nothing is raised, at construction or later; every domain is
\* empty and solve() returns None.
C14_EmptyDictionaryReturnsNone ==
    (crossword.words = {} /\ crossword.variables # {}) =>
        /\ raised = "none"
        /\ pc # "error"
        /\ \A v \in crossword.variables : domains[v] = {}
        /\ pc = "done" => ret = "None"

C14_Witness ==
    /\ crossword.words = {}
    /\ Cardinality(crossword.variables) >= 2
    /\ pc = "done"
    /\ ret = "None"
    /\ raised = "none"

----------------------------------------------------------------------------
(* The worklist of ac3() *)

\* C15: when an iteration of ac3() shrinks the domain of x by revise(x, y)
\* and leaves it non-empty, the arcs it appends are the arcs <<z, x>> of the
\* neighbours z of x other than y.
C15_RequeuesArcsIntoRevised ==
    [][ ( /\ pc = "ac3loop"
          /\ pc' = "ac3loop"
          /\ arcs # <<>>
          /\ domains' # domains )
        => LET x == Head(arcs)[1]
               y == Head(arcs)[2]
           IN  \E more \in Perms({ <<z, x>> : z \in Neighbors(x) \ {y} }) :
                   arcs' = Tail(arcs) \o more ]_vars

----------------------------------------------------------------------------
(* revise() on a node-consistent domain store *)

\* Every node-consistent domain store over the dictionary: each domain any
\* set of the words of the variable's length.
InitRevise ==
    /\ \E cells \in Structures : \E words \in Dictionaries :
           crossword = Crossword(cells, words)
    /\ domains \in [ crossword.variables -> SUBSET crossword.words ]
    /\ domains = EnforceNodeConsistency(domains)
    /\ prev = domains
    /\ pc = "store"
    /\ arcs = <<>>
    /\ ac3ret = "pending"
    /\ assignment = EmptyAssignment
    /\ stack = <<>>
    /\ ret = "pending"
    /\ raised = "none"
    /\ calls = 0
    /\ given = assignment

\* Lines 108-170: revise(x, y) is called on a node-consistent store.
CallRevise ==
    /\ pc = "store"
    /\ \E x \in crossword.variables : \E y \in crossword.variables :
         /\ given' = <<x, y>>
         /\ prev' = domains
         /\ IF ReviseRaises(domains, x, y)
            THEN /\ raised' = "IndexError"
                 /\ pc' = "error"
                 /\ UNCHANGED <<domains, ret>>
            ELSE LET r == Revise(domains, x, y)
                 IN  /\ domains' = r.domains
                     /\ ret' = IF r.revised THEN "True" ELSE "False"
                     /\ pc' = "revised"
                     /\ raised' = raised
    /\ calls' = calls + 1
    /\ UNCHANGED <<crossword, arcs, ac3ret, assignment, stack>>

NextRevise == CallRevise

SpecRevise == InitRevise /\ [][NextRevise]_vars

\* The words of x in the store doms that some word of y in doms supports.
Supported(doms, x, y) ==
    { wx \in doms[x] : \E wy \in doms[y] : Agree(x, wx, y, wy) }

\* C16: for overlapping x and y, revise(x, y) leaves in the domain of x
\* exactly the words some word of y supports (the same word included), and
\* returns True exactly when it removed a word.
C16_ReviseRemovesUnsupported ==
    (pc = "revised" /\ Overlapping(given[1], given[2])) =>
        /\ domains[given[1]] = Supported(prev, given[1], given[2])
        /\ ret = "True" <=> domains[given[1]] # prev[given[1]]

C16_Witness ==
    /\ pc = "revised"
    /\ Overlapping(given[1], given[2])
    /\ ret = "True"
    /\ domains[given[1]] # {}
    /\ domains[given[1]] \cap prev[given[2]] # {}

\* C17: revise(x, y) changes no domain but that of x, and changes nothing and
\* returns False when x = y or x and y do not overlap.
C17_ReviseChangesOnlyX ==
    pc = "revised" =>
        /\ \A v \in crossword.variables \ {given[1]} : domains[v] = prev[v]
        /\ (given[1] = given[2] \/ ~Overlapping(given[1], given[2])) =>
               (domains = prev /\ ret = "False")

C17_Witness ==
    /\ pc = "revised"
    /\ Overlapping(given[1], given[2])
    /\ ret = "True"
    /\ \E wy \in prev[given[2]] :
           \A wx \in prev[given[1]] : ~Agree(given[2], wy, given[1], wx)

----------------------------------------------------------------------------
(* What the search leaves behind *)

\* C18: from the entry of backtrack() to its return, nested calls included,
\* every domain is the domain backtrack() was entered with.
C18_SearchLeavesDomains ==
    \A v \in crossword.variables : domains[v] = prev[v]

C18_Witness ==
    /\ pc = "done"
    /\ ret = "None"
    /\ Keys(given) = {}
    /\ Cardinality(crossword.variables) >= 2
    /\ \A v \in crossword.variables : domains[v] # {}
    /\ \E v \in crossword.variables : Cardinality(domains[v]) >= 2

\* C19: every value of the loop is tried from the assignment the call was
\* entered with, and a call that returns None leaves the assignment as it
\* was entered with: the caller's entry plus the caller's tentative pair for
\* a nested call, the argument for the outermost call.
C19_FailedAssignmentsAreUndone ==
    /\ (pc = "loop" /\ stack # <<>>) => assignment = TopFrame.entry
    /\ (pc = "return" /\ ret = "None" /\ stack # <<>>) =>
           /\ Keys(assignment) = Keys(TopFrame.entry) \cup {TopFrame.variable}
           /\ \A v \in Keys(TopFrame.entry) : assignment[v] = TopFrame.entry[v]
    /\ (pc \in {"return", "done"} /\ ret = "None" /\ stack = <<>>) =>
           assignment = given

C19_Witness ==
    /\ pc = "done"
    /\ ret = "None"
    /\ assignment = given
    /\ Keys(given) # {}
    /\ Keys(given) # crossword.variables
    /\ \A v \in crossword.variables : domains[v] # {}

----------------------------------------------------------------------------
(* Termination of ac3() *)

\* The calls of solve() follow one another: no step waits for ever.
SpecFair == Spec /\ WF_vars(Next)

\* C20: ac3() returns, and an iteration of its loop that appends an arc to
\* the worklist has strictly shrunk a domain.
C20_Ac3Terminates ==
    /\ (pc = "ac3loop") ~> (ac3ret # "pending")
    /\ [][ (pc = "ac3loop" /\ arcs # <<>> /\ Len(arcs') >= Len(arcs)) =>
               /\ \A v \in crossword.variables : domains'[v] \subseteq domains[v]
               /\ \E v \in crossword.variables : domains'[v] # domains[v] ]_vars

C20_Witness ==
    /\ pc = "call"
    /\ ac3ret = "True"
    /\ Cardinality(crossword.variables) = 3
    /\ \E v \in crossword.variables : domains[v] # prev[v]

----------------------------------------------------------------------------
(* Termination of the search *)

\* C21: the search solve() starts with backtrack(dict()) ends, returning an
\* assignment or None without raising, whatever variables are chosen; the
\* assignment never holds more variables than the puzzle has, and no more
\* calls are suspended in their loop than the puzzle has variables.
C21_SearchTerminates ==
    /\ (pc = "call" /\ stack = <<>>) ~>
           (pc = "done" /\ ret \in {"assignment", "None"} /\ raised = "none")
    /\ [](/\ Cardinality(Keys(assignment)) <= Cardinality(crossword.variables)
          /\ Len(stack) <= Cardinality(crossword.variables))

C21_Witness ==
    /\ pc = "done"
    /\ raised = "none"
    /\ Cardinality(crossword.variables) = 3
    /\ Cardinality(Keys(assignment)) = Cardinality(crossword.variables)
    /\ \E v \in crossword.variables : Cardinality(domains[v]) >= 2
====
